---------------------------- MODULE Spec2Model ----------------------------
(***************************************************************************)
(* Model of step0_parse_and_copy_m3u8_Version2.py: M3U8Importer.           *)
(*                                                                         *)
(* Strings are sequences of one-character tokens (a token is a TLA+        *)
(* string; the Unicode look-alikes are written "U+2215" and so on).        *)
(* None is the one-token sequence NONE, the empty string is << >>.         *)
(***************************************************************************)
EXTENDS Integers, Sequences, FiniteSets, TLC

VARIABLES
    playlist,   \* the lines of the .m3u8 file (input, fixed)
    dest0,      \* the destination tree before the first run (input, fixed)
    run,        \* one execution of run(): the importer instance `self`
                \* ([timestamp, stats, results]), the destination tree `fs`
                \* ([files: path -> content, dirs]), the local file_paths, the
                \* loop position idx, the position pc inside run(), the value
                \* ret it returned and whether the report was written
    runNo,      \* which execution of the program this is (1 = the first)
    faultLog,   \* history: the I/O outcome chosen at each step of this execution
    clean,      \* history: no I/O failure was injected in the earlier executions
    fsAfter1,   \* history: the destination tree the first execution left
    sx,         \* sanitize check: the input string
    sy,         \* sanitize check: sanitize_filename(sx)
    syy,        \* sanitize check: sanitize_filename(sy)
    spc,        \* sanitize check: "idle", "in" (before the calls), "out"
    runA,       \* determinism check: one independent execution
    runB,       \* determinism check: another one, same inputs
    pin,        \* single-item check: the destination tree, the source file, the
                \* metadata read from it and the I/O outcome of the iteration
    pout,       \* single-item check: what generate_target_path returned or
                \* raised, and the record and counters the iteration left
    ppc         \* single-item check: "idle", "in" (before the iteration), "out"

planVars == <<pin, pout, ppc>>

vars == <<playlist, dest0, run, runNo, faultLog, clean, fsAfter1, sx, sy, syy,
          spc, runA, runB, pin, pout, ppc>>

(***************************************************************************)
(* Bounds of the model.                                                    *)
(***************************************************************************)
MaxLines == 2      \* lines in the playlist
MaxFaults == 1     \* injected I/O failures in one behaviour
MaxRuns == 2       \* runs of the program over the same destination
MaxStrLen == 3     \* length of the strings sanitize_filename is tried on

(***************************************************************************)
(* String helpers (Python str / pathlib semantics).                        *)
(***************************************************************************)
NONE == <<"<None>">>

\* Python truthiness of an Optional[str]: None and "" are falsy.
Truthy(v) == v # NONE /\ v # << >>

\* str.strip(' .') : drop leading and trailing spaces and dots.
StripChars == {" ", "."}

RECURSIVE LStrip(_)
LStrip(s) ==
    IF s # << >> /\ Head(s) \in StripChars THEN LStrip(Tail(s)) ELSE s

RECURSIVE RStrip(_)
RStrip(s) ==
    IF s # << >> /\ s[Len(s)] \in StripChars
    THEN RStrip(SubSeq(s, 1, Len(s) - 1))
    ELSE s

Strip(s) == RStrip(LStrip(s))

\* illegal_chars: the replacement table of sanitize_filename.  The double
\* quote is mapped to the double quote itself (source line 108).
IllegalChars == {"/", ":", "\\", "?", "*", "<", ">", "|", "\""}

Replacement(c) ==
    CASE c = "/"  -> "U+2215"
      [] c = ":"  -> "U+2236"
      [] c = "\\" -> "U+29F5"
      [] c = "?"  -> "U+FF1F"
      [] c = "*"  -> "U+FF0A"
      [] c = "<"  -> "U+FF1C"
      [] c = ">"  -> "U+FF1E"
      [] c = "|"  -> "U+FF5C"
      [] c = "\"" -> "\""
      [] OTHER    -> c

ReplaceIllegal(s) == [i \in 1..Len(s) |-> Replacement(s[i])]

Unknown == <<"U", "n", "k", "n", "o", "w", "n">>

\* A sanitize_filename that forgets the "Unknown" fallback after stripping.
sanitize_filename_nofallback(name) ==
    IF ~Truthy(name) THEN Unknown ELSE Strip(ReplaceIllegal(name))

\* sanitize_filename(name)
sanitize_filename(name) ==
    IF ~Truthy(name)
    THEN Unknown
    ELSE LET stripped == Strip(ReplaceIllegal(name))
         IN  IF stripped = << >> THEN Unknown ELSE stripped


(***************************************************************************)
(* pathlib.PurePath.stem / .suffix and integer formatting.                 *)
(***************************************************************************)
\* str.rfind('.') + 1 : the 1-based index of the last dot, 0 when there is none.
RECURSIVE RFindDot(_)
RFindDot(s) ==
    IF s = << >> THEN 0
    ELSE IF s[Len(s)] = "." THEN Len(s)
    ELSE RFindDot(SubSeq(s, 1, Len(s) - 1))

\* PurePath.suffix: from the last dot on, unless that dot leads or ends the name.
PathSuffix(name) ==
    LET i == RFindDot(name)
    IN  IF 1 < i /\ i < Len(name) THEN SubSeq(name, i, Len(name)) ELSE << >>

\* PurePath.stem: the name without its suffix.
PathStem(name) ==
    LET i == RFindDot(name)
    IN  IF 1 < i /\ i < Len(name) THEN SubSeq(name, 1, i - 1) ELSE name

DigitChars == <<"0", "1", "2", "3", "4", "5", "6", "7", "8", "9">>

\* str(n) for n >= 0
RECURSIVE Digits(_)
Digits(n) ==
    IF n < 10 THEN <<DigitChars[n + 1]>>
    ELSE Digits(n \div 10) \o <<DigitChars[(n % 10) + 1]>>

\* str(n)
IntStr(n) == IF n < 0 THEN <<"-">> \o Digits(0 - n) ELSE Digits(n)

\* f"{n:02d}" : zero-padded to width 2, the sign counted in the width.
Fmt02d(n) == IF 0 <= n /\ n < 10 THEN <<"0">> \o Digits(n) ELSE IntStr(n)

DigitValue(c) == CHOOSE d \in 0..9 : DigitChars[d + 1] = c

RECURSIVE DigitsValue(_)
DigitsValue(s) ==
    IF s = << >> THEN 0
    ELSE 10 * DigitsValue(SubSeq(s, 1, Len(s) - 1)) + DigitValue(s[Len(s)])

IsDigits(s) ==
    /\ s # << >>
    /\ \A i \in 1..Len(s) : \E d \in 1..10 : DigitChars[d] = s[i]

RECURSIVE LStripSpace(_)
LStripSpace(s) == IF s # << >> /\ Head(s) = " " THEN LStripSpace(Tail(s)) ELSE s

RECURSIVE RStripSpace(_)
RStripSpace(s) ==
    IF s # << >> /\ s[Len(s)] = " "
    THEN RStripSpace(SubSeq(s, 1, Len(s) - 1))
    ELSE s

\* int(s): surrounding blanks and one sign are accepted; [ok, v].
ParseInt(s) ==
    LET t    == RStripSpace(LStripSpace(s))
        neg  == t # << >> /\ Head(t) = "-"
        body == IF t # << >> /\ Head(t) \in {"-", "+"} THEN Tail(t) ELSE t
    IN  IF IsDigits(body)
        THEN [ok |-> TRUE, v |-> IF neg THEN 0 - DigitsValue(body) ELSE DigitsValue(body)]
        ELSE [ok |-> FALSE, v |-> 0]

\* s.split('/')[0]
RECURSIVE BeforeSlash(_)
BeforeSlash(s) ==
    IF s = << >> \/ Head(s) = "/" THEN << >>
    ELSE <<Head(s)>> \o BeforeSlash(Tail(s))

(***************************************************************************)
(* Track numbers: None, an int (MP4 'trkn') or a string (ID3 / FLAC).      *)
(***************************************************************************)
NoTrack == [t |-> "none", v |-> 0, s |-> << >>]
IntTrack(n) == [t |-> "int", v |-> n, s |-> << >>]
StrTrack(str) == [t |-> "str", v |-> 0, s |-> str]

\* Python truthiness of metadata["track_number"]: None, 0 and "" are falsy.
TrackTruthy(tr) ==
    \/ tr.t = "int" /\ tr.v # 0
    \/ tr.t = "str" /\ tr.s # << >>

\* str(metadata["track_number"])
TrackStr(tr) == IF tr.t = "int" THEN IntStr(tr.v) ELSE tr.s

EmptyMetadata ==
    [artist |-> NONE, album_artist |-> NONE, album |-> NONE, title |-> NONE,
     track_number |-> NoTrack, year |-> NONE, genre |-> NONE]

(***************************************************************************)
(* The files of the experiment.  A content is an abstract byte string      *)
(* (a number); its size, digest and embedded tags are functions of it, so  *)
(* byte-identical files carry identical tags.                              *)
(***************************************************************************)
ExtMp3 == <<".", "m", "p", "3">>

\* Content 0: a foreign file already in the library.  Contents 1 and 2: two
\* takes of one song (same tags, same size, different bytes).  Content 3: a
\* file whose container is not recognised (no tags); one of the files that
\* hold it is named "q?.mp3", a legal name on a POSIX file system.  Content 4: a song whose
\* title ends in " (1)".  Content 10 + c: what a copy of c that failed half
\* way left behind.
PartialOf(c) == 10 + c

ContentSize(c) ==
    CASE c = 0 -> 3
      [] c = 1 -> 3
      [] c = 2 -> 3
      [] c = 3 -> 4
      [] c = 4 -> 5
      [] OTHER -> 1

\* hashlib.md5 of the content: distinct contents have distinct digests.
ContentMd5(c) == 1000 + c
NoMd5 == 0 - 1

\* MutagenFile(...) is not None
Recognized(c) == c \in {1, 2, 4}

SongTitle == <<"T", ":", "x">>

\* The tags embedded in a recognised file (genre is the empty string).
Tags(c) ==
    [artist |-> <<"A">>, album_artist |-> NONE, album |-> <<"B">>,
     title |-> IF c = 4 THEN SongTitle \o <<" ", "(", "1", ")">> ELSE SongTitle,
     track_number |-> NoTrack, year |-> <<"2", "0">>, genre |-> << >>]

\* The source files on disk: directory, name, content.
SourceFiles ==
    << [loc |-> "d1", name |-> <<"x">> \o ExtMp3, content |-> 1],
       [loc |-> "d2", name |-> <<"x">> \o ExtMp3, content |-> 2],
       [loc |-> "d1", name |-> <<"n">> \o ExtMp3, content |-> 3],
       [loc |-> "d2", name |-> <<"q", "?">> \o ExtMp3, content |-> 3],
       [loc |-> "d1", name |-> <<"z">> \o ExtMp3, content |-> 4] >>

SourcePaths == 1..Len(SourceFiles)
SrcName(p) == SourceFiles[p].name
SrcContent(p) == SourceFiles[p].content

(***************************************************************************)
(* The destination tree.                                                   *)
(***************************************************************************)
Target(dir, name) == [dir |-> dir, name |-> name]
NoPath == [dir |-> << >>, name |-> NONE]

Exists(tree, path) == path \in DOMAIN tree.files

\* Path.mkdir(parents=True, exist_ok=True) of <root>/<artist>/<album>
MkDirs(tree, dir) ==
    [tree EXCEPT !.dirs = @ \cup {<< >>, <<dir[1]>>, dir}]

\* writing content c at path (creating or replacing the file)
WriteFile(tree, path, c) ==
    [tree EXCEPT !.files = (path :> c) @@ @]

(***************************************************************************)
(* extract_metadata                                                        *)
(***************************************************************************)
\* lines 195-197: empty strings become None
CleanField(v) == IF v = << >> THEN NONE ELSE v

CleanMetadata(md) ==
    [artist |-> CleanField(md.artist), album_artist |-> CleanField(md.album_artist),
     album |-> CleanField(md.album), title |-> CleanField(md.title),
     track_number |-> IF md.track_number.t = "str" /\ md.track_number.s = << >>
                      THEN NoTrack ELSE md.track_number,
     year |-> CleanField(md.year), genre |-> CleanField(md.genre)]

\* extract_metadata(file_path) under outcome f of the tag library:
\*   "meta_open": MutagenFile raises;  "meta_mid": reading the title raises,
\*   after artist, album_artist and album were stored.
\* Returns the metadata and the updated stats.
extract_metadata(stats, source_path, f) ==
    LET c == SrcContent(source_path)
        failed == [stats EXCEPT !.metadata_read_failed = @ + 1]
    IN  IF f = "meta_open"
        THEN [metadata |-> EmptyMetadata, stats |-> failed]
        ELSE IF ~Recognized(c)
        THEN [metadata |-> EmptyMetadata, stats |-> stats]
        ELSE IF f = "meta_mid"
        THEN [metadata |-> [EmptyMetadata EXCEPT !.artist = Tags(c).artist,
                                                 !.album_artist = Tags(c).album_artist,
                                                 !.album = Tags(c).album],
              stats |-> failed]
        ELSE [metadata |-> CleanMetadata(Tags(c)),
              stats |-> [stats EXCEPT !.metadata_read_success = @ + 1]]

(***************************************************************************)
(* _files_identical and _calculate_md5                                     *)
(***************************************************************************)
calculate_md5(c) == ContentMd5(c)

\* A _files_identical that never recognises two files as the same.
files_identical_never(c1, c2, raises) == FALSE

\* _files_identical(file1, file2): sizes first, then digests; any error while
\* reading (raises = TRUE) is swallowed and answers False.
files_identical(c1, c2, raises) ==
    IF raises THEN FALSE
    ELSE IF ContentSize(c1) # ContentSize(c2) THEN FALSE
    ELSE calculate_md5(c1) = calculate_md5(c2)

(***************************************************************************)
(* generate_target_path                                                    *)
(***************************************************************************)
\* line 259: the suffix counter may not pass 100
MaxCollisions == 100

UnknownArtist == <<"U", "n", "k", "n", "o", "w", "n", " ", "A", "r", "t", "i", "s", "t">>
UnknownAlbum == <<"U", "n", "k", "n", "o", "w", "n", " ", "A", "l", "b", "u", "m">>

\* a or b  (Python: the first truthy operand, else the last)
PyOr(a, b) == IF Truthy(a) THEN a ELSE b

\* lines 219-227: <artist>/<album> below the destination root
TargetDir(metadata) ==
    LET artist == PyOr(metadata.album_artist, PyOr(metadata.artist, UnknownArtist))
        album  == PyOr(metadata.album, UnknownAlbum)
    IN  <<sanitize_filename(artist), sanitize_filename(album)>>

\* lines 235-238: the name with the parsed track number n in front, or the
\* title alone when int() raised
TrackPrefixed(n, title, ext) ==
    IF n.ok THEN Fmt02d(n.v) \o <<" ", "-", " ">> \o title \o ext
    ELSE title \o ext

\* lines 231-244: the file name, from the title or the source's own name
TargetFilename(source_path, metadata) ==
    IF Truthy(metadata.title)
    THEN sanitize_filename(
             IF TrackTruthy(metadata.track_number)
             THEN TrackPrefixed(ParseInt(BeforeSlash(TrackStr(metadata.track_number))),
                                metadata.title, PathSuffix(SrcName(source_path)))
             ELSE metadata.title \o PathSuffix(SrcName(source_path)))
    ELSE SrcName(source_path)

\* f"{stem} ({counter}){suffix}"
SuffixedName(stem, counter, suffix) ==
    stem \o <<" ", "(">> \o IntStr(counter) \o <<")">> \o suffix

\* lines 254-260, one pass of  while target_path.exists(): ...  on the loop
\* state st = [pc, target_path, counter]: the test of line 254 and, when it
\* holds, the body; pc is "while" (the loop goes on), "return" (the test
\* failed: line 262) or "raise" (line 260)
LoopPass(tree, dir, filename, st) ==
    IF st.pc # "while" THEN st
    ELSE IF ~Exists(tree, st.target_path) THEN [st EXCEPT !.pc = "return"]
    ELSE IF st.counter + 1 > MaxCollisions
    THEN [pc |-> "raise", target_path |-> NoPath, counter |-> st.counter + 1]
    ELSE [pc |-> "while",
          target_path |-> Target(dir, SuffixedName(PathStem(filename), st.counter,
                                                   PathSuffix(filename))),
          counter |-> st.counter + 1]

\* n passes of the loop, one after the other
RECURSIVE LoopPasses(_, _, _, _, _)
LoopPasses(tree, dir, filename, st, n) ==
    IF st.pc # "while" \/ n = 0 THEN st
    ELSE IF n = 1 THEN LoopPass(tree, dir, filename, st)
    ELSE LoopPasses(tree, dir, filename,
                    LoopPasses(tree, dir, filename, st, n \div 2), n - (n \div 2))

\* how the loop was left: [raised, target_path]
LoopLeft(st) == [raised |-> st.pc = "raise", target_path |-> st.target_path]

\* lines 254-260: the loop, entered with target_path and counter; it is left
\* after MaxCollisions passes at the latest (one more when the counter
\* starts below 1)
CollisionLoop(tree, dir, filename, target_path, counter) ==
    LoopLeft(LoopPasses(tree, dir, filename,
                        [pc |-> "while", target_path |-> target_path,
                         counter |-> counter],
                        MaxCollisions + 1))

\* lines 262 and 260: what generate_target_path hands back, r being the
\* outcome of the loop
Planned(r, made) ==
    [raised |-> r.raised,
     error |-> IF r.raised THEN "too_many_collisions" ELSE "",
     target_path |-> r.target_path, tree |-> made]

\* A collision handling that returns the candidate whatever it holds.
ResolveCollision_overwrite(made, dir, filename, source_path, f, start) ==
    [raised |-> FALSE, error |-> "", target_path |-> Target(dir, filename),
     tree |-> made]

\* lines 246-262: the candidate <dir>/<filename> on the tree `made`, and the
\* collision handling, its counter starting at `start`
ResolveCollision(made, dir, filename, source_path, f, start) ==
    IF Exists(made, Target(dir, filename))
       /\ ~files_identical(SrcContent(source_path),
                           made.files[Target(dir, filename)], f = "cmp_plan")
    THEN Planned(CollisionLoop(made, dir, filename, Target(dir, filename), start),
                 made)
    ELSE [raised |-> FALSE, error |-> "", target_path |-> Target(dir, filename),
          tree |-> made]

\* lines 227-228 failing: target_dir.mkdir raises
MkdirRaised(tree) ==
    [raised |-> TRUE, error |-> "mkdir_error", target_path |-> NoPath, tree |-> tree]

\* A generate_target_path without lines 248-260: the first candidate is
\* returned whatever the destination holds.
generate_target_path_nocollision(imp, tree, source_path, metadata, f) ==
    IF f = "mkdir" THEN MkdirRaised(tree)
    ELSE [raised |-> FALSE, error |-> "",
          target_path |-> Target(TargetDir(metadata),
                                 TargetFilename(source_path, metadata)),
          tree |-> MkDirs(tree, TargetDir(metadata))]

\* A generate_target_path whose suffix counter starts at the importer's
\* timestamp instead of 1.
generate_target_path_timestamp(imp, tree, source_path, metadata, f) ==
    IF f = "mkdir" THEN MkdirRaised(tree)
    ELSE ResolveCollision(MkDirs(tree, TargetDir(metadata)), TargetDir(metadata),
                          TargetFilename(source_path, metadata), source_path, f,
                          imp.timestamp)

\* A generate_target_path whose suffix counter starts at 0 instead of 1.
generate_target_path_fromzero(imp, tree, source_path, metadata, f) ==
    IF f = "mkdir" THEN MkdirRaised(tree)
    ELSE ResolveCollision(MkDirs(tree, TargetDir(metadata)), TargetDir(metadata),
                          TargetFilename(source_path, metadata), source_path, f, 0)

\* generate_target_path(source_path, metadata) on destination `tree`, under
\* outcome f: "mkdir" (target_dir.mkdir raises), "cmp_plan" (the comparison of
\* line 249 fails to read).  [raised, error, target_path, tree]
generate_target_path(imp, tree, source_path, metadata, f) ==
    IF f = "mkdir" THEN MkdirRaised(tree)
    ELSE ResolveCollision(MkDirs(tree, TargetDir(metadata)), TargetDir(metadata),
                          TargetFilename(source_path, metadata), source_path, f, 1)

(***************************************************************************)
(* copy_files: one iteration of the loop of lines 409-464                  *)
(***************************************************************************)
InitStats ==
    [total_entries |-> 0, valid_files |-> 0, missing_files |-> 0,
     metadata_read_success |-> 0, metadata_read_failed |-> 0,
     copied_success |-> 0, copied_skipped |-> 0, copied_failed |-> 0,
     total_size |-> 0]

\* M3U8Importer.__init__ ; the timestamp is the wall clock of the execution
NewImporter(timestamp) ==
    [timestamp |-> timestamp, stats |-> InitStats, results |-> << >>]

ABSENT == <<"<absent>">>

\* "metadata": {} of a failed record
NoMetadata ==
    [artist |-> ABSENT, album_artist |-> ABSENT, album |-> ABSENT, title |-> ABSENT,
     track_number |-> NoTrack, year |-> ABSENT, genre |-> ABSENT]

\* An except branch that forgets to count the failure.
ItemFailed_uncounted(imp, stats, tree, source_path, error) ==
    [self |-> [imp EXCEPT
                 !.stats = stats,
                 !.results = Append(@,
                     [source_path |-> source_path, target_path |-> NoPath,
                      filename |-> SrcName(source_path), size_bytes |-> 0,
                      status |-> "failed", md5 |-> NoMd5,
                      metadata |-> NoMetadata, error |-> error])],
     fs |-> tree]

\* lines 451-464: the except branch
ItemFailed(imp, stats, tree, source_path, error) ==
    [self |-> [imp EXCEPT
                 !.stats = [stats EXCEPT !.copied_failed = @ + 1],
                 !.results = Append(@,
                     [source_path |-> source_path, target_path |-> NoPath,
                      filename |-> SrcName(source_path), size_bytes |-> 0,
                      status |-> "failed", md5 |-> NoMd5,
                      metadata |-> NoMetadata, error |-> error])],
     fs |-> tree]

\* lines 440-449: the record of a copied or skipped item; reading the size
\* ("stat_rec") or the digest ("md5_rec") of the target may raise.
ItemRecorded(imp, stats, tree, source_path, target_path, status, metadata, f) ==
    IF f = "stat_rec" THEN ItemFailed(imp, stats, tree, source_path, "stat_error")
    ELSE IF f = "md5_rec" THEN ItemFailed(imp, stats, tree, source_path, "read_error")
    ELSE [self |-> [imp EXCEPT
                      !.stats = stats,
                      !.results = Append(@,
                          [source_path |-> source_path, target_path |-> target_path,
                           filename |-> target_path.name,
                           size_bytes |-> ContentSize(tree.files[target_path]),
                           status |-> status,
                           md5 |-> calculate_md5(tree.files[target_path]),
                           metadata |-> metadata, error |-> ""])],
          fs |-> tree]

\* The I/O outcomes of one iteration: at most one call of the iteration fails.
ItemFaults ==
    {"none", "meta_open", "meta_mid", "mkdir", "cmp_plan", "cmp_copy", "copy",
     "copy_partial", "stat_copy", "stat_rec", "md5_rec"}

\* lines 419-449, once the metadata (with the stats after reading it) and
\* the plan are known; c is the source's content
CopyPlanned(imp, stats, metadata, plan, source_path, c, f) ==
    IF plan.raised
    THEN ItemFailed(imp, stats, plan.tree, source_path, plan.error)
    ELSE IF Exists(plan.tree, plan.target_path)
            /\ files_identical(c, plan.tree.files[plan.target_path], f = "cmp_copy")
    THEN ItemRecorded(imp, [stats EXCEPT !.copied_skipped = @ + 1], plan.tree,
                      source_path, plan.target_path, "skipped", metadata, f)
    ELSE IF f = "copy"
    THEN ItemFailed(imp, stats, plan.tree, source_path, "copy_error")
    ELSE IF f = "copy_partial"
    THEN ItemFailed(imp, stats, WriteFile(plan.tree, plan.target_path, PartialOf(c)),
                    source_path, "copy_error")
    ELSE IF f = "stat_copy"
    THEN ItemFailed(imp, stats, WriteFile(plan.tree, plan.target_path, c),
                    source_path, "stat_error")
    ELSE ItemRecorded(imp,
                      [stats EXCEPT !.total_size = @ + ContentSize(c),
                                    !.copied_success = @ + 1],
                      WriteFile(plan.tree, plan.target_path, c), source_path,
                      plan.target_path, "success", metadata, f)

\* lines 416-417: plan the item with the metadata just read
CopyWithMetadata(imp, tree, source_path, f, ex) ==
    CopyPlanned(imp, ex.stats, ex.metadata,
                generate_target_path(imp, tree, source_path, ex.metadata, f),
                source_path, SrcContent(source_path), f)

\* A loop body that appends no record when the item raised.
DropFailedRecord(before, after) ==
    IF Len(after.self.results) > 0
       /\ after.self.results[Len(after.self.results)].status = "failed"
    THEN [after EXCEPT !.self.results = before.results]
    ELSE after

CopyItem_norecord(imp, tree, source_path, f) ==
    DropFailedRecord(imp,
        CopyWithMetadata(imp, tree, source_path, f,
                         extract_metadata(imp.stats, source_path, f)))

\* The body of the loop for one source_path, under I/O outcome f:
\*   "cmp_copy": the comparison of line 420 fails to read; "copy": shutil.copy2
\*   raises before writing; "copy_partial": it raises after writing part of the
\*   file; "stat_copy": the stat of line 429 raises.
\* [self, fs]
CopyItem(imp, tree, source_path, f) ==
    CopyWithMetadata(imp, tree, source_path, f,
                     extract_metadata(imp.stats, source_path, f))

(***************************************************************************)
(* parse_m3u8 and _resolve_path                                            *)
(***************************************************************************)
\* A playlist line is a comment or blank line ("skip"), an entry whose path
\* does not exist ("missing"), an entry on which resolving raises ("bad", for
\* instance an embedded NUL), or an entry naming a source file ("file").
Lines ==
    {[k |-> "skip", src |-> 0], [k |-> "missing", src |-> 0], [k |-> "bad", src |-> 0]}
    \cup {[k |-> "file", src |-> p] : p \in SourcePaths}

\* lines 282-298 over the lines of the file: [stats, file_paths]
RECURSIVE ParseLines(_, _, _)
ParseLines(lines, stats, paths) ==
    IF lines = << >> THEN [stats |-> stats, file_paths |-> paths]
    ELSE LET line == Head(lines)
             counted == [stats EXCEPT !.total_entries = @ + 1]
         IN  CASE line.k = "skip" ->
                    ParseLines(Tail(lines), stats, paths)
               [] line.k = "file" ->
                    ParseLines(Tail(lines),
                               [counted EXCEPT !.valid_files = @ + 1],
                               Append(paths, line.src))
               [] line.k = "missing" ->
                    ParseLines(Tail(lines),
                               [counted EXCEPT !.missing_files = @ + 1], paths)
               [] OTHER ->
                    ParseLines(Tail(lines), counted, paths)

\* parse_m3u8() under outcome o: "absent" (line 273), "unreadable" (open or
\* decoding raises, line 302), "ok".  [stats, file_paths]
parse_m3u8(stats, lines, o) ==
    IF o = "ok" THEN ParseLines(lines, stats, << >>)
    ELSE [stats |-> stats, file_paths |-> << >>]

(***************************************************************************)
(* run(): its steps, as functions of one execution's state                 *)
(***************************************************************************)
NewRun(timestamp, tree) ==
    [self |-> NewImporter(timestamp), fs |-> tree, file_paths |-> << >>,
     idx |-> 0, pc |-> "start", ret |-> "running", report |-> "none"]

\* lines 527-533: parse, and give up when nothing valid was found
Parsed(r, parsed) ==
    IF parsed.file_paths = << >>
    THEN [r EXCEPT !.self.stats = parsed.stats, !.pc = "done", !.ret = "False"]
    ELSE [r EXCEPT !.self.stats = parsed.stats,
                   !.file_paths = parsed.file_paths, !.pc = "copy"]

ParseStep(r, lines, o) == Parsed(r, parse_m3u8(r.self.stats, lines, o))

\* lines 401-407: copy_files up to its loop; creating the destination root
\* may raise ("mkroot"), which run() turns into False (lines 546-550)
BeginCopyStep(r, f) ==
    IF f = "mkroot"
    THEN [r EXCEPT !.pc = "done", !.ret = "False"]
    ELSE [r EXCEPT !.fs.dirs = @ \cup {<< >>}, !.pc = "loop", !.idx = 0]

\* one iteration of the loop
ItemDone(r, done) == [r EXCEPT !.self = done.self, !.fs = done.fs, !.idx = @ + 1]

ItemStep(r, f) == ItemDone(r, CopyItem(r.self, r.fs, r.file_paths[r.idx + 1], f))

\* lines 538-544: save_results (a failure to write is logged, "save"),
\* print_summary, return True
FinishStep(r, f) ==
    [r EXCEPT !.report = IF f = "save" THEN "failed" ELSE "saved",
              !.pc = "done", !.ret = "True"]

(***************************************************************************)
(* Inputs                                                                  *)
(***************************************************************************)
Playlists == UNION {[1..n -> Lines] : n \in 0..MaxLines}

EmptyTree == [files |-> << >>, dirs |-> {}]

LibDir == TargetDir(Tags(1))
LibName == sanitize_filename(Tags(1).title \o ExtMp3)

\* the i-th name tried for LibName: the plain name, then " (1)", " (2)", ...
LibSlot(i) ==
    Target(LibDir,
           IF i = 0 THEN LibName
           ELSE SuffixedName(PathStem(LibName), i, PathSuffix(LibName)))

\* A library that already holds k foreign files (content 0) under the name
\* the tagged sources map to: the plain name and the suffixes (1)..(k-1).
OccupiedTree(k) ==
    [files |-> [path \in {LibSlot(i) : i \in 0..(k - 1)} |-> 0],
     dirs |-> {<< >>, <<LibDir[1]>>, LibDir}]

OccupiedCounts == {1, 2}

InitialTrees == {EmptyTree} \cup {OccupiedTree(k) : k \in OccupiedCounts}

IdleRun == [NewRun(0, EmptyTree) EXCEPT !.pc = "idle"]

(***************************************************************************)
(* Specification Spec: the program run MaxRuns times over one destination  *)
(***************************************************************************)
Results == run.self.results
Stats == run.self.stats

\* the failures injected so far in this execution
RECURSIVE CountFaults(_)
CountFaults(log) ==
    IF log = << >> THEN 0
    ELSE (IF Head(log) \in {"none", "ok"} THEN 0 ELSE 1) + CountFaults(Tail(log))

\* Failures are injected in the first execution only: the later ones re-run
\* the program in an undisturbed environment.
MayFail(f) ==
    f \in {"none", "ok"} \/ (runNo = 1 /\ CountFaults(faultLog) < MaxFaults)
Logged(f) == Append(faultLog, f)

SanitizeIdle == sx = << >> /\ sy = << >> /\ syy = << >> /\ spc = "idle"

\* the single-item check before it has run, and when it is not in use
NoPlanInput ==
    [tree |-> EmptyTree, source_path |-> 1, metadata |-> EmptyMetadata, f |-> "none"]
NoPlanOutput ==
    [raised |-> FALSE, error |-> "", target_path |-> NoPath,
     record |-> [status |-> "none", target_path |-> NoPath, filename |-> NONE,
                 error |-> ""],
     stats |-> InitStats]
PlanIdle == pin = NoPlanInput /\ pout = NoPlanOutput /\ ppc = "idle"
DetIdle == runA = IdleRun /\ runB = IdleRun

Init ==
    /\ playlist \in Playlists
    /\ dest0 \in InitialTrees
    /\ run = NewRun(1, dest0)
    /\ runNo = 1
    /\ faultLog = << >>
    /\ clean = TRUE
    /\ fsAfter1 = EmptyTree
    /\ SanitizeIdle
    /\ DetIdle
    /\ PlanIdle

Parse ==
    /\ run.pc = "start"
    /\ \E o \in {"ok", "absent", "unreadable"} :
          /\ MayFail(o)
          /\ run' = ParseStep(run, playlist, o)
          /\ faultLog' = Logged(o)
    /\ UNCHANGED <<playlist, dest0, runNo, clean, fsAfter1, sx, sy, syy, spc, runA, runB, planVars>>

BeginCopy ==
    /\ run.pc = "copy"
    /\ \E f \in {"none", "mkroot"} :
          /\ MayFail(f)
          /\ run' = BeginCopyStep(run, f)
          /\ faultLog' = Logged(f)
    /\ UNCHANGED <<playlist, dest0, runNo, clean, fsAfter1, sx, sy, syy, spc, runA, runB, planVars>>

Item ==
    /\ run.pc = "loop"
    /\ run.idx < Len(run.file_paths)
    /\ \E f \in ItemFaults :
          /\ MayFail(f)
          /\ run' = ItemStep(run, f)
          /\ faultLog' = Logged(f)
    /\ UNCHANGED <<playlist, dest0, runNo, clean, fsAfter1, sx, sy, syy, spc, runA, runB, planVars>>

Finish ==
    /\ run.pc = "loop"
    /\ run.idx = Len(run.file_paths)
    /\ \E f \in {"none", "save"} :
          /\ MayFail(f)
          /\ run' = FinishStep(run, f)
          /\ faultLog' = Logged(f)
    /\ UNCHANGED <<playlist, dest0, runNo, clean, fsAfter1, sx, sy, syy, spc, runA, runB, planVars>>

\* the program is started again: a new importer over the tree as it is now
Rerun ==
    /\ run.pc = "done"
    /\ runNo < MaxRuns
    /\ run' = NewRun(runNo + 1, run.fs)
    /\ runNo' = runNo + 1
    /\ faultLog' = << >>
    /\ clean' = (clean /\ CountFaults(faultLog) = 0)
    /\ fsAfter1' = IF runNo = 1 THEN run.fs ELSE fsAfter1
    /\ UNCHANGED <<playlist, dest0, sx, sy, syy, spc, runA, runB, planVars>>

Next == Parse \/ BeginCopy \/ Item \/ Finish \/ Rerun

Spec == Init /\ [][Next]_vars

(***************************************************************************)
(* Specification SpecSanitize: sanitize_filename on every short string     *)
(***************************************************************************)
SanAlphabet == {" ", ".", "a", "/", "\""}

SanInputs == UNION {[1..n -> SanAlphabet] : n \in 0..MaxStrLen} \cup {NONE}

RunsIdle ==
    /\ playlist = << >>
    /\ dest0 = EmptyTree
    /\ run = IdleRun
    /\ runNo = 0
    /\ faultLog = << >>
    /\ clean = TRUE
    /\ fsAfter1 = EmptyTree

InitSanitize ==
    /\ sx \in SanInputs
    /\ sy = << >>
    /\ syy = << >>
    /\ spc = "in"
    /\ RunsIdle
    /\ DetIdle
    /\ PlanIdle

\* y = sanitize_filename(x); yy = sanitize_filename(y)
SanitizeCall ==
    /\ spc = "in"
    /\ sy' = sanitize_filename(sx)
    /\ syy' = sanitize_filename(sanitize_filename(sx))
    /\ spc' = "out"
    /\ UNCHANGED <<playlist, dest0, run, runNo, faultLog, clean, fsAfter1, sx, runA, runB, planVars>>

NextSanitize == SanitizeCall

SpecSanitize == InitSanitize /\ [][NextSanitize]_vars

(***************************************************************************)
(* Specification SpecDet: two independent executions, A and B, started     *)
(* from the same destination tree on the same playlist and meeting the     *)
(* same I/O outcomes; they differ in their wall-clock timestamp.           *)
(***************************************************************************)
InitDet ==
    /\ playlist \in Playlists
    /\ dest0 \in InitialTrees
    /\ runA = NewRun(1, dest0)
    /\ runB = NewRun(2, dest0)
    /\ run = IdleRun
    /\ runNo = 0
    /\ faultLog = << >>
    /\ clean = TRUE
    /\ fsAfter1 = EmptyTree
    /\ SanitizeIdle
    /\ PlanIdle

DetMayFail(f) == f \in {"none", "ok"} \/ CountFaults(faultLog) < MaxFaults
DetLogged(f) == Append(faultLog, f)

DetParse ==
    /\ runA.pc = "start" /\ runB.pc = "start"
    /\ \E o \in {"ok", "absent", "unreadable"} :
          /\ DetMayFail(o)
          /\ runA' = ParseStep(runA, playlist, o)
          /\ runB' = ParseStep(runB, playlist, o)
          /\ faultLog' = DetLogged(o)
    /\ UNCHANGED <<playlist, dest0, run, runNo, clean, fsAfter1, sx, sy, syy, spc, planVars>>

DetBeginCopy ==
    /\ runA.pc = "copy" /\ runB.pc = "copy"
    /\ \E f \in {"none", "mkroot"} :
          /\ DetMayFail(f)
          /\ runA' = BeginCopyStep(runA, f)
          /\ runB' = BeginCopyStep(runB, f)
          /\ faultLog' = DetLogged(f)
    /\ UNCHANGED <<playlist, dest0, run, runNo, clean, fsAfter1, sx, sy, syy, spc, planVars>>

DetItem ==
    /\ runA.pc = "loop" /\ runB.pc = "loop"
    /\ runA.idx < Len(runA.file_paths) /\ runB.idx < Len(runB.file_paths)
    /\ \E f \in ItemFaults :
          /\ DetMayFail(f)
          /\ runA' = ItemStep(runA, f)
          /\ runB' = ItemStep(runB, f)
          /\ faultLog' = DetLogged(f)
    /\ UNCHANGED <<playlist, dest0, run, runNo, clean, fsAfter1, sx, sy, syy, spc, planVars>>

DetFinish ==
    /\ runA.pc = "loop" /\ runB.pc = "loop"
    /\ runA.idx = Len(runA.file_paths) /\ runB.idx = Len(runB.file_paths)
    /\ \E f \in {"none", "save"} :
          /\ DetMayFail(f)
          /\ runA' = FinishStep(runA, f)
          /\ runB' = FinishStep(runB, f)
          /\ faultLog' = DetLogged(f)
    /\ UNCHANGED <<playlist, dest0, run, runNo, clean, fsAfter1, sx, sy, syy, spc, planVars>>

NextDet == DetParse \/ DetBeginCopy \/ DetItem \/ DetFinish

SpecDet == InitDet /\ [][NextDet]_vars

(***************************************************************************)
(* Specification SpecPlan: one iteration of the loop of copy_files on a    *)
(* chosen destination tree, source file and metadata.  The metadata is any *)
(* record extract_metadata can return (a title or none, a track number as  *)
(* an MP4 integer or an ID3/FLAC string).                                  *)
(***************************************************************************)
\* OccupiedTree(k) with, in its first free slot ' (k)', a file of content c
IdenticalAt(k, c) == WriteFile(OccupiedTree(k), LibSlot(k), c)

PlanTrees ==
    {EmptyTree, OccupiedTree(1), OccupiedTree(2), IdenticalAt(1, 1), IdenticalAt(2, 1),
     OccupiedTree(MaxCollisions - 1), OccupiedTree(MaxCollisions),
     OccupiedTree(MaxCollisions + 1)}

PlanSources == {1, 4}

PlanTitles == {NONE, SongTitle, <<" ", ".">>}

PlanTracks ==
    {NoTrack, IntTrack(0), IntTrack(3), IntTrack(12), StrTrack(<<"0">>),
     StrTrack(<<"3", "/", "9">>), StrTrack(<<"x">>), StrTrack(<<" ", "7">>)}

PlanMetadata ==
    {[EmptyMetadata EXCEPT !.artist = who[1], !.album = who[2], !.title = title,
                           !.track_number = track] :
        who \in {<<NONE, NONE>>, <<Tags(1).artist, Tags(1).album>>},
        title \in PlanTitles, track \in PlanTracks}

PlanFaults == {"none", "mkdir", "cmp_plan", "copy"}

PlanInputs ==
    [tree : PlanTrees, source_path : PlanSources, metadata : PlanMetadata,
     f : PlanFaults]

\* what the iteration left: the outcome of generate_target_path and the
\* record appended by lines 440-449 or 455-464
PlanItemDone(plan, done) ==
    [raised |-> plan.raised, error |-> plan.error, target_path |-> plan.target_path,
     record |-> [status |-> done.self.results[1].status,
                 target_path |-> done.self.results[1].target_path,
                 filename |-> done.self.results[1].filename,
                 error |-> done.self.results[1].error],
     stats |-> done.self.stats]

\* lines 419-464 with the plan of line 417
PlanItemWith(in, plan) ==
    PlanItemDone(plan,
                 CopyPlanned(NewImporter(1), InitStats, in.metadata, plan,
                             in.source_path, SrcContent(in.source_path), in.f))

\* lines 416-464 for the metadata in.metadata
PlanItem(in) ==
    PlanItemWith(in, generate_target_path(NewImporter(1), in.tree, in.source_path,
                                          in.metadata, in.f))

InitPlan ==
    /\ pin \in PlanInputs
    /\ pout = NoPlanOutput
    /\ ppc = "in"
    /\ RunsIdle
    /\ SanitizeIdle
    /\ DetIdle

PlanCall ==
    /\ ppc = "in"
    /\ pout' = PlanItem(pin)
    /\ ppc' = "out"
    /\ UNCHANGED <<playlist, dest0, run, runNo, faultLog, clean, fsAfter1, sx, sy,
                   syy, spc, runA, runB, pin>>

NextPlan == PlanCall

SpecPlan == InitPlan /\ [][NextPlan]_vars

(***************************************************************************)
(* Vocabulary of the properties                                            *)
(***************************************************************************)
\* the I/O outcome the i-th item of this execution met (the log holds the
\* outcomes of the parse and of the root mkdir first)
ItemOutcome(i) == faultLog[i + 2]

\* no I/O failure so far, in this execution or an earlier one
NoFaultSoFar == clean /\ CountFaults(faultLog) = 0

\* the metadata a successful extraction yields for a source file
MetadataOf(source_path) == extract_metadata(InitStats, source_path, "none").metadata

\* the candidate path a source file is planned to, before any collision suffix
PlannedPath(source_path) ==
    Target(TargetDir(MetadataOf(source_path)),
           TargetFilename(source_path, MetadataOf(source_path)))

\* that path with " (n)" before the extension
SuffixedPath(path, n) ==
    Target(path.dir, SuffixedName(PathStem(path.name), n, PathSuffix(path.name)))

CountStatus(results, status) ==
    Cardinality({i \in 1..Len(results) : results[i].status = status})

RECURSIVE SizeOfSuccesses(_)
SizeOfSuccesses(results) ==
    IF results = << >> THEN 0
    ELSE (IF Head(results).status = "success" THEN Head(results).size_bytes ELSE 0)
         + SizeOfSuccesses(Tail(results))

\* the playlist entries that name an existing regular file, in order
RECURSIVE ResolvedEntries(_)
ResolvedEntries(lines) ==
    IF lines = << >> THEN << >>
    ELSE (IF Head(lines).k = "file" THEN <<Head(lines).src>> ELSE << >>)
         \o ResolvedEntries(Tail(lines))

(***************************************************************************)
(* C1.  Idempotence of a whole run: when the program is run a second time  *)
(* with the playlist, the sources and the destination left by the first    *)
(* run unchanged (and no I/O failure in either run), every record of the   *)
(* second run is 'skipped', no new file appears in the destination and     *)
(* total_size is 0 -- also when the first run used a ' (n)' suffix.        *)
(* The code does not meet this: see C1_SecondRunOnlySkips's trace.         *)
(***************************************************************************)
C1_SecondRunOnlySkips ==
    (runNo = 2 /\ run.pc = "done" /\ NoFaultSoFar)
    => /\ \A i \in 1..Len(Results) : Results[i].status = "skipped"
       /\ DOMAIN run.fs.files = DOMAIN fsAfter1.files
       /\ Stats.total_size = 0

(***************************************************************************)
(* C2.  Dedup correctness: of two distinct source files with the same      *)
(* bytes (whatever their names), processed in playlist order without I/O   *)
(* failure, the second is recorded 'skipped' at the first one's path, so   *)
(* one physical file stands for both.  The code does not meet this.        *)
(***************************************************************************)
C2_SecondCopyOfSameBytesSkipped ==
    (runNo = 1 /\ NoFaultSoFar)
    => \A i, j \in 1..Len(Results) :
          (i < j
           /\ Results[i].source_path # Results[j].source_path
           /\ SrcContent(Results[i].source_path) = SrcContent(Results[j].source_path))
          => /\ Results[j].status = "skipped"
             /\ Results[j].target_path = Results[i].target_path

(***************************************************************************)
(* C3.  Disambiguation: when the first two items of a run have different   *)
(* content but the same planned path, the destination held neither that    *)
(* path nor its ' (1)' variant, and neither item met an I/O failure, then  *)
(* the first is copied to the plain path, the second to the ' (1)' path,   *)
(* both are 'success', and the destination holds both contents.            *)
(***************************************************************************)
C3_Case ==
    /\ runNo = 1
    /\ Len(Results) >= 2
    /\ ItemOutcome(1) = "none" /\ ItemOutcome(2) = "none"
    /\ SrcContent(run.file_paths[1]) # SrcContent(run.file_paths[2])
    /\ PlannedPath(run.file_paths[1]) = PlannedPath(run.file_paths[2])
    /\ ~Exists(dest0, PlannedPath(run.file_paths[1]))
    /\ ~Exists(dest0, SuffixedPath(PlannedPath(run.file_paths[1]), 1))

C3_Disambiguation ==
    C3_Case
    => LET plain == PlannedPath(run.file_paths[1])
           second == SuffixedPath(plain, 1)
       IN  /\ Results[1].target_path = plain
           /\ Results[2].target_path = second
           /\ plain # second
           /\ Results[1].status = "success" /\ Results[2].status = "success"
           /\ Exists(run.fs, plain) /\ Exists(run.fs, second)
           /\ run.fs.files[plain] = SrcContent(run.file_paths[1])
           /\ run.fs.files[second] = SrcContent(run.file_paths[2])

C3_Witness == C3_Case /\ Results[2].status = "success"

(***************************************************************************)
(* C4.  Target-path uniqueness: in every state of a run, two records with  *)
(* the same non-null target_path carry the same md5.                       *)
(***************************************************************************)
C4_TargetPathUnique ==
    \A i, j \in 1..Len(Results) :
       (Results[i].target_path # NoPath /\ Results[i].target_path = Results[j].target_path)
       => Results[i].md5 = Results[j].md5

\* two records share a target path, and another record of the same planned
\* name was sent elsewhere
C4_Witness ==
    \E i, j \in 1..Len(Results) :
       /\ i < j
       /\ Results[i].target_path # NoPath
       /\ Results[i].target_path = Results[j].target_path
       /\ Results[j].status = "skipped"

(***************************************************************************)
(* C5.  Counter consistency: after run() has completed,                    *)
(* valid_files = copied_success + copied_skipped + copied_failed, also     *)
(* when an item's copy succeeded and the later size or digest read failed. *)
(* The code does not meet this.                                            *)
(***************************************************************************)
C5_CounterConsistency ==
    (run.pc = "done" /\ run.ret = "True")
    => Stats.valid_files
         = Stats.copied_success + Stats.copied_skipped + Stats.copied_failed

(***************************************************************************)
(* C6.  One record per valid reference, in order: once copy_files has      *)
(* finished, file_paths is the list of the playlist entries that resolved  *)
(* to a file, results has one record per element of it (a repeated entry   *)
(* gets a record each time), and the i-th record's source_path is the      *)
(* i-th of them, whatever the outcome of each item.                        *)
(***************************************************************************)
CopyFinished ==
    \/ run.pc = "loop" /\ run.idx = Len(run.file_paths)
    \/ run.pc = "done" /\ run.ret = "True"

C6_OneRecordPerReference ==
    CopyFinished
    => /\ run.file_paths = ResolvedEntries(playlist)
       /\ Len(Results) = Len(run.file_paths)
       /\ \A i \in 1..Len(Results) : Results[i].source_path = run.file_paths[i]

\* a playlist naming one file twice, one of the two items having failed
C6_Witness ==
    /\ CopyFinished
    /\ Len(Results) = 2
    /\ Results[1].source_path = Results[2].source_path
    /\ \E i \in 1..2 : Results[i].status = "failed"

(***************************************************************************)
(* C7.  Determinism (specification SpecDet): two independent executions    *)
(* started from the same destination tree, on the same playlist and        *)
(* sources and meeting the same I/O outcomes, have at every step the same  *)
(* sequence of (target_path, status) pairs and the same destination tree,  *)
(* hence the same suffix for every disambiguated item.                     *)
(***************************************************************************)
StatusPairs(r) ==
    [i \in 1..Len(r.self.results) |->
        <<r.self.results[i].target_path, r.self.results[i].status>>]

C7_Determinism ==
    /\ StatusPairs(runA) = StatusPairs(runB)
    /\ runA.fs = runB.fs
    /\ runA.ret = runB.ret

\* both executions are over and an item was given a collision suffix
C7_Witness ==
    /\ runA.pc = "done" /\ runB.pc = "done" /\ runA.ret = "True"
    /\ runA.self.timestamp # runB.self.timestamp
    /\ \E i \in 1..Len(runA.self.results) :
          /\ runA.self.results[i].status = "success"
          /\ runA.self.results[i].target_path
               # PlannedPath(runA.self.results[i].source_path)

(***************************************************************************)
(* C8.  Run outcome: run() returns False exactly when the playlist could   *)
(* not be read or yielded no valid file; with at least one entry resolved  *)
(* it returns True, whatever failed later (an item, the creation of the    *)
(* destination root, the report).  The code does not meet this.            *)
(***************************************************************************)
C8_RunOutcome ==
    run.pc = "done"
    => (run.ret = "False"
          <=> (faultLog[1] # "ok" \/ ResolvedEntries(playlist) = << >>))

(***************************************************************************)
(* C9.  RunStats is re-derivable from the records: after a run,            *)
(* copied_success, copied_skipped and copied_failed are the numbers of     *)
(* records of each status and total_size is the sum of size_bytes over the *)
(* 'success' records.  The code does not meet this.                        *)
(***************************************************************************)
C9_StatsRederivable ==
    run.pc = "done"
    => /\ Stats.copied_success = CountStatus(Results, "success")
       /\ Stats.copied_skipped = CountStatus(Results, "skipped")
       /\ Stats.copied_failed = CountStatus(Results, "failed")
       /\ Stats.total_size = SizeOfSuccesses(Results)

(***************************************************************************)
(* C10.  sanitize_filename is idempotent and never empty (specification    *)
(* SpecSanitize): for every string x, sanitize(sanitize(x)) = sanitize(x)  *)
(* and sanitize(x) is not the empty string.                                *)
(***************************************************************************)
C10_SanitizeIdempotentNonEmpty ==
    spc = "out" => (syy = sy /\ sy # << >>)

\* the call was made on a string of spaces and dots only
C10_Witness ==
    /\ spc = "out"
    /\ sx # << >> /\ sx # NONE
    /\ \A i \in 1..Len(sx) : sx[i] \in StripChars
    /\ sy = Unknown

(***************************************************************************)
(* Vocabulary of the single-item properties                                *)
(***************************************************************************)
\* the first candidate of the iteration: <artist>/<album>/<filename>
PlanCandidate == Target(TargetDir(pin.metadata),
                        TargetFilename(pin.source_path, pin.metadata))

\* the candidate with " (n)" before its extension
PlanSlot(n) ==
    Target(PlanCandidate.dir,
           SuffixedName(PathStem(PlanCandidate.name), n, PathSuffix(PlanCandidate.name)))

\* the destination holds, at path, a file that differs from the source
HoldsOther(path) ==
    Exists(pin.tree, path) /\ pin.tree.files[path] # SrcContent(pin.source_path)

\* the destination holds, at path, the bytes of the source
HoldsSame(path) ==
    Exists(pin.tree, path) /\ pin.tree.files[path] = SrcContent(pin.source_path)

\* the iteration ran without I/O failure
PlanRan == ppc = "out" /\ pin.f = "none"

(***************************************************************************)
(* C11.  sanitize_filename replaces every filesystem-illegal character     *)
(* (specification SpecSanitize): for every input string the result holds   *)
(* none of the nine characters / : \ ? * < > | " .  The code does not meet *)
(* this: the double quote is replaced by itself.                           *)
(***************************************************************************)
C11_NoIllegalCharLeft ==
    (spc = "out" /\ sx # NONE)
    => \A i \in 1..Len(sy) : sy[i] \notin IllegalChars

(***************************************************************************)
(* C12.  Collision resolution re-checks identity at every suffix step      *)
(* (specification SpecPlan): when the candidate exists with other content, *)
(* the slots ' (1)'..' (n-1)' exist with other content and the slot ' (n)' *)
(* holds the bytes of the source, generate_target_path returns the ' (n)'  *)
(* path and the item is recorded 'skipped'.  The code does not meet this.  *)
(***************************************************************************)
C12_IdentityRechecked ==
    \A n \in 1..2 :
       (/\ PlanRan
        /\ HoldsOther(PlanCandidate)
        /\ \A m \in 1..(n - 1) : HoldsOther(PlanSlot(m))
        /\ HoldsSame(PlanSlot(n)))
       => /\ ~pout.raised
          /\ pout.target_path = PlanSlot(n)
          /\ pout.record.status = "skipped"

(***************************************************************************)
(* C13.  Collision cap (specification SpecPlan): every suffix 1..100 is    *)
(* usable.  When the candidate and the slots ' (1)'..' (99)' hold other    *)
(* content and ' (100)' is free, the ' (100)' path is returned; the        *)
(* collision failure is raised only when all of ' (1)'..' (100)' exist;    *)
(* and when it is raised the record is 'failed' with that error.           *)
(* The code does not meet this: ' (100)' is never returned.                *)
(***************************************************************************)
C13_CollisionCap ==
    PlanRan
    => /\ (/\ HoldsOther(PlanCandidate)
           /\ \A m \in 1..(MaxCollisions - 1) : HoldsOther(PlanSlot(m))
           /\ ~Exists(pin.tree, PlanSlot(MaxCollisions)))
          => (~pout.raised /\ pout.target_path = PlanSlot(MaxCollisions))
       /\ pout.raised
          => /\ \A m \in 1..MaxCollisions : Exists(pin.tree, PlanSlot(m))
             /\ pout.record.status = "failed"
             /\ pout.record.error = pout.error

(***************************************************************************)
(* C15.  The destination filename is always sanitized (specification       *)
(* SpecPlan): when no collision suffix is involved, the filename of the    *)
(* path generate_target_path returns is a fixed point of                   *)
(* sanitize_filename, whether it comes from the title or from the source's *)
(* own name.  The code does not meet this for the source's own name.       *)
(***************************************************************************)
C15_FilenameSanitized ==
    (PlanRan /\ ~pout.raised /\ ~Exists(pin.tree, PlanCandidate))
    => sanitize_filename(pout.target_path.name) = pout.target_path.name

(***************************************************************************)
(* C16.  Track-number prefix (specification SpecPlan): with a title, the   *)
(* filename is the sanitized '<track:02d> - <title><ext>' exactly when the *)
(* track number (its part before any '/') parses as an integer, 0          *)
(* included, and the sanitized '<title><ext>' otherwise.  The code does    *)
(* not meet this for the integer 0.                                        *)
(***************************************************************************)
TrackParses(tr) == tr.t # "none" /\ ParseInt(BeforeSlash(TrackStr(tr))).ok

ExpectedFilename ==
    LET ext == PathSuffix(SrcName(pin.source_path))
        tr == pin.metadata.track_number
    IN  sanitize_filename(
            IF TrackParses(tr)
            THEN Fmt02d(ParseInt(BeforeSlash(TrackStr(tr))).v)
                     \o <<" ", "-", " ">> \o pin.metadata.title \o ext
            ELSE pin.metadata.title \o ext)

C16_TrackPrefix ==
    (/\ PlanRan /\ ~pout.raised /\ ~Exists(pin.tree, PlanCandidate)
     /\ Truthy(pin.metadata.title))
    => pout.target_path.name = ExpectedFilename

(***************************************************************************)
(* C14.  Metadata failure yields an all-empty record: whenever extraction  *)
(* fails for an item, at its start or after some fields were read, the     *)
(* metadata used for planning has every field null, the item is still      *)
(* copied or skipped, and it lands under 'Unknown Artist/Unknown Album'    *)
(* with its original filename (or that name with a collision suffix).      *)
(* The code does not meet this when the failure comes after some fields.   *)
(***************************************************************************)
ExtractionFailed(i) ==
    \/ ItemOutcome(i) = "meta_open"
    \/ ItemOutcome(i) = "meta_mid" /\ Recognized(SrcContent(run.file_paths[i]))

OwnNameOrSuffixed(name, source_path) ==
    \/ name = SrcName(source_path)
    \/ \E n \in 1..MaxCollisions :
          name = SuffixedName(PathStem(SrcName(source_path)), n,
                              PathSuffix(SrcName(source_path)))

C14_MetadataFailureAllEmpty ==
    runNo = 1
    => \A i \in 1..Len(Results) :
          ExtractionFailed(i)
          => /\ Results[i].status \in {"success", "skipped"}
             /\ Results[i].metadata = EmptyMetadata
             /\ Results[i].target_path.dir = <<UnknownArtist, UnknownAlbum>>
             /\ OwnNameOrSuffixed(Results[i].target_path.name, Results[i].source_path)

(***************************************************************************)
(* C19.  Entry accounting: once parse_m3u8 has read the playlist, every    *)
(* non-blank, non-comment line is counted as valid or as missing, so       *)
(* total_entries = valid_files + missing_files, also for an entry whose    *)
(* path resolution raises; blank and comment lines change no counter.      *)
(* The code does not meet this for an entry whose resolution raises.       *)
(***************************************************************************)
CountedLines == Cardinality({i \in 1..Len(playlist) : playlist[i].k # "skip"})

C19_EntryAccounting ==
    (run.pc # "start" /\ faultLog[1] = "ok")
    => /\ Stats.total_entries = CountedLines
       /\ Stats.total_entries = Stats.valid_files + Stats.missing_files

(***************************************************************************)
(* Vocabulary of the per-step properties: one iteration of the loop of     *)
(* copy_files, seen as a step of Spec.                                     *)
(***************************************************************************)
\* this step is an iteration of the loop
ItemStepTaken ==
    /\ run.pc = "loop" /\ run.idx < Len(run.file_paths)
    /\ Len(faultLog') = Len(faultLog) + 1

StepSource == run.file_paths[run.idx + 1]
StepOutcome == faultLog'[Len(faultLog')]
NewRecord == run'.self.results[Len(run'.self.results)]

\* the iteration appended exactly one record
OneRecordAppended ==
    /\ Len(run'.self.results) = Len(run.self.results) + 1
    /\ SubSeq(run'.self.results, 1, Len(run.self.results)) = run.self.results

(***************************************************************************)
(* C17.  Per-item failure containment: when planning fails for an item     *)
(* (creating its directory raises) or the copy primitive fails (before or  *)
(* after writing part of the file), the item gets exactly one record, with *)
(* status 'failed', a non-empty error text and a null target_path;         *)
(* copied_failed grows by 1, copied_success and total_size do not change,  *)
(* and the loop goes on with the next item.                                *)
(***************************************************************************)
C17_Case ==
    /\ ItemStepTaken
    /\ \/ StepOutcome = "mkdir"
       \/ /\ StepOutcome \in {"copy", "copy_partial"}
          /\ run'.self.stats.copied_skipped = run.self.stats.copied_skipped

C17_Step ==
    C17_Case
    => /\ OneRecordAppended
       /\ NewRecord.source_path = StepSource
       /\ NewRecord.status = "failed"
       /\ NewRecord.error # ""
       /\ NewRecord.target_path = NoPath
       /\ run'.self.stats.copied_failed = run.self.stats.copied_failed + 1
       /\ run'.self.stats.copied_success = run.self.stats.copied_success
       /\ run'.self.stats.total_size = run.self.stats.total_size
       /\ run'.pc = "loop" /\ run'.idx = run.idx + 1
       /\ run'.file_paths = run.file_paths

C17_FailureContained == [][C17_Step]_vars

\* the copy of the first item failed and the second item was then copied
C17_Witness ==
    /\ runNo = 1
    /\ Len(Results) = 2
    /\ ItemOutcome(1) \in {"copy", "copy_partial"}
    /\ Results[1].status = "failed"
    /\ Results[2].status = "success"

(***************************************************************************)
(* C18.  Skip leaves the destination untouched: when the planned target    *)
(* exists and holds the bytes of the source (and reading the metadata,     *)
(* creating the directory and comparing the files all work), the copy      *)
(* primitive is not invoked, the destination tree is the same after the    *)
(* item as before, total_size and copied_success are unchanged and         *)
(* copied_skipped grows by 1.                                              *)
(***************************************************************************)
C18_Case ==
    /\ ItemStepTaken
    /\ StepOutcome \in {"none", "copy", "copy_partial", "stat_copy", "stat_rec", "md5_rec"}
    /\ Exists(run.fs, PlannedPath(StepSource))
    /\ run.fs.files[PlannedPath(StepSource)] = SrcContent(StepSource)

C18_Step ==
    C18_Case
    => /\ run'.fs = run.fs
       /\ run'.self.stats.total_size = run.self.stats.total_size
       /\ run'.self.stats.copied_success = run.self.stats.copied_success
       /\ run'.self.stats.copied_skipped = run.self.stats.copied_skipped + 1
       /\ StepOutcome \notin {"stat_rec", "md5_rec"}
          => /\ NewRecord.status = "skipped"
             /\ NewRecord.target_path = PlannedPath(StepSource)

C18_SkipLeavesDestination == [][C18_Step]_vars

\* an item was skipped in an iteration whose copy primitive would have failed
C18_Witness ==
    /\ runNo = 1
    /\ Len(Results) = 2
    /\ ItemOutcome(2) \in {"copy", "copy_partial"}
    /\ Results[2].status = "skipped"
    /\ Stats.copied_skipped = 1

(***************************************************************************)
(* C20.  No destructive overwrite: every file present in the destination   *)
(* tree before an item is processed is still there, with the same content, *)
(* after the item, whatever the playlist, the initial tree and the I/O     *)
(* outcome of the item.                                                    *)
(***************************************************************************)
C20_Step ==
    ItemStepTaken
    => \A path \in DOMAIN run.fs.files :
          /\ path \in DOMAIN run'.fs.files
          /\ run'.fs.files[path] = run.fs.files[path]

C20_NoDestructiveOverwrite == [][C20_Step]_vars

\* the first item's planned path held another file; the item was copied and
\* that file is intact
C20_Witness ==
    /\ Len(Results) >= 1
    /\ Results[1].status = "success"
    /\ Exists(dest0, PlannedPath(Results[1].source_path))
    /\ dest0.files[PlannedPath(Results[1].source_path)]
         # SrcContent(Results[1].source_path)
    /\ run.fs.files[PlannedPath(Results[1].source_path)]
         = dest0.files[PlannedPath(Results[1].source_path)]
    /\ Results[1].target_path # PlannedPath(Results[1].source_path)

(***************************************************************************)
(* C21.  Extension preservation (specification SpecPlan): for a source     *)
(* file with a non-empty extension and any metadata, the filename of the   *)
(* path generate_target_path returns ends with the source's extension,     *)
(* also when the title holds only spaces and dots and when a collision     *)
(* suffix ' (n)' is inserted.  The code does not meet this for a title of  *)
(* spaces and dots.                                                        *)
(***************************************************************************)
EndsWith(s, tail) ==
    /\ Len(tail) <= Len(s)
    /\ SubSeq(s, Len(s) - Len(tail) + 1, Len(s)) = tail

C21_ExtensionPreserved ==
    (/\ PlanRan /\ ~pout.raised
     /\ PathSuffix(SrcName(pin.source_path)) # << >>)
    => EndsWith(pout.target_path.name, PathSuffix(SrcName(pin.source_path)))
=============================================================================
